---------------------------- MODULE Spec2Model ----------------------------
(***************************************************************************)
(* Model of orion-ui/src/services/uiSettings.ts: the static UiSettings     *)
(* loader (load, get) and mapSettingsResponse, run on a JavaScript event   *)
(* loop: synchronous call prefixes, a FIFO microtask queue for promise     *)
(* reactions, and the network outcome of the GET request as a macrotask.   *)
(***************************************************************************)
EXTENDS Integers, Sequences, FiniteSets, TLC

\* ------------------------------------------------------------------ bounds
\* Number of load()/get() invocations made by the application in one run.
NumCalls == 3

Calls == 1..NumCalls

\* ------------------------------------------------------- JavaScript values
Undef == [t |-> "undefined"]
Null == [t |-> "null"]
Str(s) == [t |-> "string", s |-> s]
Num(n) == [t |-> "number", n |-> n]
TypeError == [t |-> "error", name |-> "TypeError"]

\* JavaScript truthiness of the values used here (!error.status, if (defaultValue)).
Truthy(v) ==
  CASE v.t = "undefined" -> FALSE
    [] v.t = "null" -> FALSE
    [] v.t = "string" -> v.s # ""
    [] v.t = "number" -> v.n # 0
    [] OTHER -> TRUE

\* A completion of a synchronous computation or a settled promise.
Ok(v) == [ok |-> TRUE, val |-> v]
Throw(v) == [ok |-> FALSE, val |-> v]

\* ------------------------------------------------------------------ inputs
\* MODE() results and the page origin.
Modes == {"development", "production"}
Origin == "https://orion.example"

\* api_url values of a response body; Undef is a body without the key.
ApiUrls == {Str("http://example.com"), Undef}
Response(u) == [t |-> "object", data |-> [t |-> "object", api_url |-> u]]

\* Request errors: no status (connectivity failure) or an HTTP status.
Statuses == {Undef, Num(404)}
RequestError(st) == [t |-> "object", status |-> st]

\* get() arguments.
Keys == {"apiUrl", "missingKey"}
Defaults == {Undef, Str(""), Str("fallback")}

\* ------------------------------------------------------------------- state
VARIABLES
  mode,        \* result of MODE()
  baseUrl,     \* UiSettings.baseUrl
  settings,    \* UiSettings.settings
  promise,     \* UiSettings.promise: 0 is null, else an index into heap
  heap,        \* the promises created by load(): state, value, reactions
  requests,    \* the GET requests issued, in order
  queue,       \* the microtask queue (FIFO)
  calls,       \* the load()/get() invocations
  toasts,      \* the showToast calls made, in order
  writes       \* number of assignments to UiSettings.settings

vars == <<mode, baseUrl, settings, promise, heap, requests, queue, calls, toasts, writes>>

Job(type, c, p, comp) == [type |-> type, c |-> c, p |-> p, ok |-> comp.ok, val |-> comp.val]

IdleCall == [kind |-> "none", key |-> "", def |-> Undef, pc |-> "idle",
             path |-> "", afterFailure |-> FALSE, result |-> Undef]

\* ------------------------------------------------------- the code's pieces
\* baseUrl initialiser.
ResolveBaseUrl_OriginOnly(m) == Origin
ResolveBaseUrl(m) == IF m = "development" THEN "http://127.0.0.1:4200" ELSE Origin

\* The two early returns of load(): which path a call takes.
LoadPath_NoSingleFlight(s, p) == IF s # Null THEN "cached" ELSE "fetch"
LoadPath_NoCache(s, p) == IF p # 0 THEN "shared" ELSE "fetch"
LoadPath_StaleCache(s, p) == IF s # Null \/ p # 0 THEN "cached" ELSE "fetch"
LoadPath(s, p) ==
  IF s # Null THEN "cached"
  ELSE IF p # 0 THEN "shared"
  ELSE "fetch"

\* The condition of the catch handler: if (!error.status).
ShouldNotify_Always(error) == TRUE
ShouldNotify(error) == ~Truthy(error.status)

Toast == [message |-> "ConnectionToastMessage", severity |-> "error", timeout |-> FALSE]

\* mapSettingsResponse: reading .data of undefined throws a TypeError.
mapSettingsResponse_Lenient(response) ==
  IF response.t = "undefined"
  THEN Ok([t |-> "object", apiUrl |-> Undef])
  ELSE Ok([t |-> "object", apiUrl |-> response.data.api_url])
mapSettingsResponse(response) ==
  IF response.t = "undefined"
  THEN Throw(TypeError)
  ELSE Ok([t |-> "object", apiUrl |-> response.data.api_url])

\* .then(resolve) inside the executor: a fulfilled chain resolves the
\* promise; a rejected chain is dropped (the executor takes no reject).
SettleFromChain_Reject(pr, comp) ==
  IF pr.state # "pending" THEN pr
  ELSE [pr EXCEPT !.state = IF comp.ok THEN "fulfilled" ELSE "rejected", !.val = comp.val]
SettleFromChain(pr, comp) ==
  IF pr.state # "pending" \/ ~comp.ok THEN pr
  ELSE [pr EXCEPT !.state = "fulfilled", !.val = comp.val]

\* this.settings?.[setting]
Lookup(s, setting) ==
  IF s = Null THEN Undef
  ELSE IF setting = "apiUrl" THEN s.apiUrl
  ELSE Undef

MissingMessage(setting) ==
  [t |-> "string",
   parts |-> <<"UI setting \"", setting, "\" does not exist and no default was provided.">>]

\* The body of get() after the await.
GetOutcome_DefaultFirst(s, setting, defaultValue) ==
  IF Truthy(defaultValue) THEN Ok(defaultValue)
  ELSE IF Lookup(s, setting) = Undef THEN Throw(MissingMessage(setting))
  ELSE Ok(Lookup(s, setting))
GetOutcome_ExplicitUndefined(s, setting, defaultValue) ==
  IF Lookup(s, setting) = Undef
  THEN IF defaultValue # Undef THEN Ok(defaultValue)
       ELSE Throw(MissingMessage(setting))
  ELSE Ok(Lookup(s, setting))
GetOutcome_NoDefault(s, setting, defaultValue) ==
  IF Lookup(s, setting) = Undef THEN Throw(MissingMessage(setting))
  ELSE Ok(Lookup(s, setting))
GetOutcome(s, setting, defaultValue) ==
  IF Lookup(s, setting) = Undef
  THEN IF Truthy(defaultValue) THEN Ok(defaultValue)
       ELSE Throw(MissingMessage(setting))
  ELSE Ok(Lookup(s, setting))

\* ------------------------------------------------------------------- Init
Init ==
  /\ mode \in Modes
  /\ baseUrl = ResolveBaseUrl(mode)
  /\ settings = Null
  /\ promise = 0
  /\ heap = <<>>
  /\ requests = <<>>
  /\ queue = <<>>
  /\ calls = [c \in Calls |-> IdleCall]
  /\ toasts = <<>>
  /\ writes = 0

\* ---------------------------------------------------------------- actions
\* Some request has already failed (for the record kept with each call).
FailedBefore == \E r \in 1..Len(requests) : requests[r].state = "rejected"

\* The settled outer promise of load() reaches its caller: a load() call is
\* finished, a get() call resumes after its await in a later microtask.
Deliver(c, kind, comp, q) ==
  IF kind = "load"
  THEN /\ calls' = [calls EXCEPT ![c].pc = IF comp.ok THEN "fulfilled" ELSE "rejected",
                                 ![c].result = comp.val]
       /\ queue' = q
  ELSE /\ calls' = [calls EXCEPT ![c].pc = "getAwait"]
       /\ queue' = Append(q, Job("getCont", c, 0, comp))

\* The synchronous prefix of load(), entered directly or from get().
Enter(c, kind, key, def) ==
  LET path == LoadPath(settings, promise)
      rec == [IdleCall EXCEPT !.kind = kind, !.key = key, !.def = def,
                              !.path = path, !.afterFailure = FailedBefore]
  IN
  /\ calls[c].pc = "idle"
  /\ IF c = 1 THEN TRUE ELSE calls[c - 1].pc # "idle"
  /\ CASE path = "cached" ->
            /\ IF kind = "load"
               THEN /\ calls' = [calls EXCEPT ![c] = [rec EXCEPT !.pc = "fulfilled",
                                                                !.result = settings]]
                    /\ queue' = queue
               ELSE /\ calls' = [calls EXCEPT ![c] = [rec EXCEPT !.pc = "getAwait"]]
                    /\ queue' = Append(queue, Job("getCont", c, 0, Ok(settings)))
            /\ UNCHANGED <<promise, heap, requests>>
       [] path = "shared" ->
            /\ calls' = [calls EXCEPT ![c] = [rec EXCEPT !.pc = "thenableJob"]]
            /\ queue' = Append(queue, Job("thenable", c, promise, Ok(Undef)))
            /\ UNCHANGED <<promise, heap, requests>>
       [] path = "fetch" ->
            LET p == Len(heap) + 1 IN
            /\ heap' = Append(heap, [state |-> "pending", val |-> Undef,
                                     reactions |-> <<[type |-> "loadCont", c |-> c]>>])
            /\ promise' = p
            /\ requests' = Append(requests, [path |-> "/ui-settings", baseURL |-> baseUrl,
                                             state |-> "inflight", p |-> p,
                                             outcome |-> Ok(Undef)])
            /\ calls' = [calls EXCEPT ![c] = [rec EXCEPT !.pc = "awaitPromise"]]
            /\ queue' = queue
  /\ UNCHANGED <<mode, baseUrl, settings, toasts, writes>>

CallLoad(c) == Enter(c, "load", "", Undef)

CallGet(c) == \E key \in Keys, def \in Defaults : Enter(c, "get", key, def)

\* The request completes (a macrotask: the microtask queue is empty).
RequestSucceed(r) ==
  /\ r \in 1..Len(requests)
  /\ requests[r].state = "inflight"
  /\ queue = <<>>
  /\ \E u \in ApiUrls :
       /\ requests' = [requests EXCEPT ![r].state = "fulfilled",
                                       ![r].outcome = Ok(Response(u))]
       /\ queue' = Append(queue, Job("catch", 0, requests[r].p, Ok(Response(u))))
  /\ UNCHANGED <<mode, baseUrl, settings, promise, heap, calls, toasts, writes>>

RequestFail(r) ==
  /\ r \in 1..Len(requests)
  /\ requests[r].state = "inflight"
  /\ queue = <<>>
  /\ \E st \in Statuses :
       /\ requests' = [requests EXCEPT ![r].state = "rejected",
                                       ![r].outcome = Throw(RequestError(st))]
       /\ queue' = Append(queue, Job("catch", 0, requests[r].p, Throw(RequestError(st))))
  /\ UNCHANGED <<mode, baseUrl, settings, promise, heap, calls, toasts, writes>>

\* .catch(handler): a response passes through; an error runs the handler,
\* which returns undefined.
RunCatch ==
  /\ queue # <<>>
  /\ Head(queue).type = "catch"
  /\ LET j == Head(queue) IN
     IF j.ok
     THEN /\ queue' = Append(Tail(queue), Job("map", 0, j.p, Ok(j.val)))
          /\ toasts' = toasts
     ELSE /\ toasts' = IF ShouldNotify(j.val) THEN Append(toasts, Toast) ELSE toasts
          /\ queue' = Append(Tail(queue), Job("map", 0, j.p, Ok(Undef)))
  /\ UNCHANGED <<mode, baseUrl, settings, promise, heap, requests, calls, writes>>

\* .then(mapSettingsResponse)
RunMap ==
  /\ queue # <<>>
  /\ Head(queue).type = "map"
  /\ LET j == Head(queue)
         comp == IF j.ok THEN mapSettingsResponse(j.val) ELSE Throw(j.val)
     IN queue' = Append(Tail(queue), Job("resolve", 0, j.p, comp))
  /\ UNCHANGED <<mode, baseUrl, settings, promise, heap, requests, calls, toasts, writes>>

\* .then(resolve): settling the promise schedules its reactions in the
\* order they were registered.
RunResolve ==
  /\ queue # <<>>
  /\ Head(queue).type = "resolve"
  /\ LET j == Head(queue)
         old == heap[j.p]
         new == SettleFromChain(old, [ok |-> j.ok, val |-> j.val])
         fired == IF new.state # old.state THEN old.reactions ELSE <<>>
         comp == [ok |-> new.state = "fulfilled", val |-> new.val]
     IN
     /\ heap' = [heap EXCEPT ![j.p] =
                   IF new.state # old.state THEN [new EXCEPT !.reactions = <<>>] ELSE old]
     /\ queue' = Tail(queue) \o
                   [i \in 1..Len(fired) |-> Job(fired[i].type, fired[i].c, j.p, comp)]
  /\ UNCHANGED <<mode, baseUrl, settings, promise, requests, calls, toasts, writes>>

\* The call that created the promise resumes after `await this.promise`:
\* return this.settings = settings.
RunLoadCont ==
  /\ queue # <<>>
  /\ Head(queue).type = "loadCont"
  /\ LET j == Head(queue) IN
     /\ IF j.ok
        THEN settings' = j.val /\ writes' = writes + 1
        ELSE UNCHANGED <<settings, writes>>
     /\ Deliver(j.c, calls[j.c].kind, [ok |-> j.ok, val |-> j.val], Tail(queue))
  /\ UNCHANGED <<mode, baseUrl, promise, heap, requests, toasts>>

\* `return this.promise` from the async function: the returned promise
\* adopts this.promise by calling its then() in a microtask.
RunThenable ==
  /\ queue # <<>>
  /\ Head(queue).type = "thenable"
  /\ LET j == Head(queue)
         pr == heap[j.p]
     IN
     IF pr.state = "pending"
     THEN /\ heap' = [heap EXCEPT ![j.p].reactions = Append(@, [type |-> "adopt", c |-> j.c])]
          /\ calls' = [calls EXCEPT ![j.c].pc = "adopting"]
          /\ queue' = Tail(queue)
     ELSE /\ heap' = heap
          /\ calls' = [calls EXCEPT ![j.c].pc = "adopting"]
          /\ queue' = Append(Tail(queue),
                             Job("adopt", j.c, j.p, [ok |-> pr.state = "fulfilled", val |-> pr.val]))
  /\ UNCHANGED <<mode, baseUrl, settings, promise, requests, toasts, writes>>

\* The adopted promise settles the promise load() returned.
RunAdopt ==
  /\ queue # <<>>
  /\ Head(queue).type = "adopt"
  /\ LET j == Head(queue) IN
     Deliver(j.c, calls[j.c].kind, [ok |-> j.ok, val |-> j.val], Tail(queue))
  /\ UNCHANGED <<mode, baseUrl, settings, promise, heap, requests, toasts, writes>>

\* get() resumes after `await this.load()`.
RunGetCont ==
  /\ queue # <<>>
  /\ Head(queue).type = "getCont"
  /\ LET j == Head(queue)
         comp == IF j.ok THEN GetOutcome(settings, calls[j.c].key, calls[j.c].def)
                 ELSE Throw(j.val)
     IN calls' = [calls EXCEPT ![j.c].pc = IF comp.ok THEN "fulfilled" ELSE "rejected",
                               ![j.c].result = comp.val]
  /\ queue' = Tail(queue)
  /\ UNCHANGED <<mode, baseUrl, settings, promise, heap, requests, toasts, writes>>

Next ==
  \/ \E c \in Calls : CallLoad(c)
  \/ \E c \in Calls : CallGet(c)
  \/ \E r \in 1..Len(requests) : RequestSucceed(r)
  \/ \E r \in 1..Len(requests) : RequestFail(r)
  \/ RunCatch
  \/ RunMap
  \/ RunResolve
  \/ RunLoadCont
  \/ RunThenable
  \/ RunAdopt
  \/ RunGetCont

Spec == Init /\ [][Next]_vars


\* ------------------------------------------------------ shared vocabulary
Started(c) == calls[c].pc # "idle"
Finished(c) == calls[c].pc \in {"fulfilled", "rejected"}

\* The promise load() returned to call c has been fulfilled.
LoadResolved(c) ==
  \/ calls[c].kind = "load" /\ calls[c].pc = "fulfilled"
  \/ calls[c].kind = "get" /\ calls[c].pc \in {"getAwait", "fulfilled", "rejected"}

\* The catch reaction of request r has not run yet.
CatchPending(r) ==
  \E i \in 1..Len(queue) : queue[i].type = "catch" /\ queue[i].p = requests[r].p

Succeeded(r) == requests[r].state = "fulfilled"
Failed(r) == requests[r].state = "rejected"
ConnectivityFailure(r) == Failed(r) /\ requests[r].outcome.val.status = Undef
HttpFailure(r) == Failed(r) /\ requests[r].outcome.val.status # Undef

\* Nothing is left to run: no request in flight, no microtask queued.
Quiescent ==
  /\ queue = <<>>
  /\ \A r \in 1..Len(requests) : requests[r].state # "inflight"

SettingsOf(u) == [t |-> "object", apiUrl |-> u]

\* ------------------------------------------------------------------ claims
\* C1: however many load() calls are made before the first request has
\* resolved, and however they interleave, exactly one GET /ui-settings
\* request is issued (to path /ui-settings), every such call that has
\* resolved holds the one mapped settings value, and once the response has
\* been processed every such call has resolved.
SingleFlight ==
  /\ Len(requests) <= 1
  /\ (\E c \in Calls : Started(c)) => Len(requests) = 1 /\ requests[1].path = "/ui-settings"
  /\ \A c \in Calls :
       calls[c].kind = "load" /\ calls[c].path \in {"fetch", "shared"} =>
         /\ calls[c].pc = "fulfilled" =>
               /\ Succeeded(1)
               /\ calls[c].result = SettingsOf(requests[1].outcome.val.data.api_url)
         /\ Succeeded(1) /\ queue = <<>> => calls[c].pc = "fulfilled"

SingleFlightWitness ==
  /\ \A c \in Calls : calls[c].kind = "load" /\ calls[c].pc = "fulfilled"
  /\ calls[1].path = "fetch"
  /\ \A c \in Calls \ {1} : calls[c].path = "shared"
  /\ calls[1].result = SettingsOf(Str("http://example.com"))
  /\ Len(requests) = 1

\* C2: once some load() call has resolved, no step issues a request, and
\* every load() call made from then on takes the cached path: a direct
\* load() is fulfilled at once with the cached settings.
Memoization ==
  [][(\E d \in Calls : LoadResolved(d)) =>
       /\ Len(requests') = Len(requests)
       /\ \A c \in Calls :
            calls[c].pc = "idle" /\ calls'[c].pc # "idle" =>
              /\ calls'[c].path = "cached"
              /\ calls'[c].kind = "load" =>
                    calls'[c].pc = "fulfilled" /\ calls'[c].result = settings]_vars

MemoizationWitness ==
  /\ \E d \in Calls : calls[d].path = "fetch" /\ LoadResolved(d)
  /\ \E c \in Calls : /\ calls[c].kind = "load"
                        /\ calls[c].path = "cached"
                        /\ calls[c].pc = "fulfilled"
                        /\ calls[c].result = settings
  /\ \E c \in Calls : calls[c].kind = "get" /\ calls[c].path = "cached" /\ Finished(c)
  /\ Len(requests) = 1

\* C3 (as claimed): when the request has failed and its failure has been
\* processed, every load() call made so far has resolved with the degraded
\* settings value, apiUrl undefined.
FailedLoadResolvesDegraded ==
  \A c \in Calls :
    /\ Len(requests) >= 1 /\ Failed(1)
    /\ Quiescent
    /\ calls[c].kind = "load"
    => calls[c].pc = "fulfilled" /\ calls[c].result = SettingsOf(Undef)

\* C4: no load() call is ever rejected, and a get() call is rejected only
\* with the missing-setting message for its key.
NoFailurePropagation ==
  \A c \in Calls :
    calls[c].pc = "rejected" =>
      /\ calls[c].kind = "get"
      /\ calls[c].result.t = "string"
      /\ calls[c].result = MissingMessage(calls[c].key)

NoFailurePropagationWitness ==
  /\ Len(requests) = 1 /\ Failed(1)
  /\ Quiescent
  /\ \E c \in Calls : calls[c].kind = "load" /\ calls[c].path = "fetch"
  /\ \E c \in Calls : calls[c].kind = "get" /\ calls[c].path = "shared"
  /\ \A c \in Calls : Started(c) /\ calls[c].pc # "rejected"

\* C5: the notifications shown are exactly one per connectivity failure
\* (error without status) whose catch handler has run, each with severity
\* 'error' and timeout false, whatever the number of waiting callers; an
\* HTTP failure and a success show none.
NotificationPolicy ==
  LET notified == {r \in 1..Len(requests) : ConnectivityFailure(r) /\ ~CatchPending(r)}
  IN /\ Len(toasts) = Cardinality(notified)
     /\ \A i \in 1..Len(toasts) :
          toasts[i].severity = "error" /\ toasts[i].timeout = FALSE

NotificationPolicyWitness ==
  /\ Len(requests) = 1 /\ ConnectivityFailure(1)
  /\ Quiescent
  /\ \A c \in Calls : Started(c) /\ ~calls[c].afterFailure
  /\ Len(toasts) = 1


\* C6 (as claimed): after a failed load, a get(key) call made with no
\* default has failed with the missing-setting error for its key once
\* nothing is left to run.
GetAfterFailedLoadThrows ==
  \A c \in Calls :
    /\ calls[c].kind = "get" /\ calls[c].def = Undef
    /\ calls[c].afterFailure
    /\ Quiescent
    => calls[c].pc = "rejected" /\ calls[c].result = MissingMessage(calls[c].key)

\* C7: after a successful request whose settings have no value for the
\* requested key, a finished get(key) with no default was rejected with a
\* message containing the key name, a finished get(key, 'fallback')
\* returned 'fallback', each get() has finished once nothing is left to
\* run, and only the one request was ever issued.
MissingKeyAfterSuccess ==
  \A c \in Calls :
    /\ calls[c].kind = "get"
    /\ Len(requests) >= 1 /\ Succeeded(1)
    /\ calls[c].key = "missingKey" \/ requests[1].outcome.val.data.api_url = Undef
    => /\ Len(requests) = 1
       /\ Quiescent => Finished(c)
       /\ Finished(c) /\ calls[c].def = Undef =>
             /\ calls[c].pc = "rejected"
             /\ calls[c].result.t = "string"
             /\ \E i \in 1..Len(calls[c].result.parts) :
                  calls[c].result.parts[i] = calls[c].key
       /\ Finished(c) /\ calls[c].def = Str("fallback") =>
             calls[c].pc = "fulfilled" /\ calls[c].result = Str("fallback")

MissingKeyAfterSuccessWitness ==
  /\ Len(requests) = 1 /\ Succeeded(1)
  /\ \E c \in Calls : /\ calls[c].kind = "get" /\ calls[c].key = "missingKey"
                        /\ calls[c].def = Undef /\ calls[c].path = "cached"
                        /\ calls[c].pc = "rejected"
  /\ \E c \in Calls : /\ calls[c].kind = "get" /\ calls[c].key = "missingKey"
                        /\ calls[c].def = Str("fallback") /\ calls[c].path = "cached"
                        /\ calls[c].pc = "fulfilled"
                        /\ calls[c].result = Str("fallback")

\* C8: after a successful request whose body has api_url = X with X
\* defined, every finished get('apiUrl') returned X, whatever its default
\* and whether it was made before, during or after the load, and every
\* get('apiUrl') has finished once nothing is left to run.
GetReturnsLoadedValue ==
  \A c \in Calls :
    /\ calls[c].kind = "get" /\ calls[c].key = "apiUrl"
    /\ Len(requests) >= 1 /\ Succeeded(1)
    /\ requests[1].outcome.val.data.api_url # Undef
    => /\ Quiescent => Finished(c)
       /\ Finished(c) =>
             /\ calls[c].pc = "fulfilled"
             /\ calls[c].result = requests[1].outcome.val.data.api_url

GetReturnsLoadedValueWitness ==
  /\ \A c \in Calls : /\ calls[c].kind = "get" /\ calls[c].key = "apiUrl"
                        /\ calls[c].pc = "fulfilled"
                        /\ calls[c].result = Str("http://example.com")
  /\ \E c \in Calls : calls[c].path = "fetch" /\ calls[c].def = Undef
  /\ \E c \in Calls : calls[c].path = "shared" /\ calls[c].def = Str("fallback")
  /\ \E c \in Calls : calls[c].path = "cached" /\ calls[c].def = Str("fallback")

\* C9: the settings slot is null exactly while it has never been written,
\* it is written at most once, it is non-null only after a successful
\* request (holding that response's mapped value), and once non-null no
\* step changes it.
SettingsWrittenOnce ==
  /\ [](/\ writes <= 1
        /\ settings = Null <=> writes = 0
        /\ settings # Null =>
              /\ Len(requests) = 1 /\ Succeeded(1)
              /\ settings = SettingsOf(requests[1].outcome.val.data.api_url)
        /\ (\E c \in Calls : LoadResolved(c)) => settings # Null)
  /\ [][settings # Null => settings' = settings /\ writes' = writes]_vars

SettingsWrittenOnceWitness ==
  /\ settings # Null /\ writes = 1
  /\ \A c \in Calls : Finished(c)
  /\ \E c \in Calls : calls[c].path = "shared"
  /\ \E c \in Calls : calls[c].path = "cached"

\* C10 (as claimed): every separate load() call that runs into a
\* connectivity failure shows its own notification: the call that issued
\* the failed request and each call made after the failure.
NotificationPerFailedLoad ==
  (Len(requests) >= 1 /\ ConnectivityFailure(1) /\ Quiescent) =>
    Len(toasts) = 1 + Cardinality({c \in Calls : Started(c) /\ calls[c].afterFailure})

\* C10 (amended): at most one request, hence at most one connectivity
\* failure, happens in a process and it shows exactly one notification; a
\* load() or get() call made after the failure joins the stored promise,
\* issues no request and shows no notification.
OneNotificationPerProcess ==
  /\ Len(toasts) <= 1
  /\ Len(toasts) = Cardinality({r \in 1..Len(requests) :
                                  ConnectivityFailure(r) /\ ~CatchPending(r)})
  /\ \A c \in Calls : calls[c].afterFailure => calls[c].path = "shared"

OneNotificationPerProcessWitness ==
  /\ Len(requests) = 1 /\ ConnectivityFailure(1)
  /\ Quiescent
  /\ calls[1].path = "fetch" /\ ~calls[1].afterFailure
  /\ \A c \in Calls \ {1} : calls[c].afterFailure /\ calls[c].pc = "adopting"
  /\ Len(toasts) = 1


\* C11: while the request has neither succeeded nor failed, no load() or
\* get() call has settled (each one made is still waiting), the settings
\* slot is null, no further request has been issued and no notification
\* has been shown: nothing but the request's completion ends the wait.
HungRequestKeepsPending ==
  (Len(requests) >= 1 /\ requests[1].state = "inflight") =>
    /\ \A c \in Calls :
         /\ ~Finished(c) /\ ~LoadResolved(c)
         /\ Started(c) => calls[c].pc \in {"awaitPromise", "thenableJob", "adopting"}
    /\ settings = Null
    /\ Len(requests) = 1
    /\ toasts = <<>>
    /\ heap[promise].state = "pending"

HungRequestKeepsPendingWitness ==
  /\ Len(requests) = 1 /\ requests[1].state = "inflight"
  /\ queue = <<>>
  /\ calls[1].pc = "awaitPromise"
  /\ \A c \in Calls \ {1} : calls[c].pc = "adopting"
  /\ \E c \in Calls : calls[c].kind = "load"
  /\ \E c \in Calls : calls[c].kind = "get"

\* C12: the base URL is the development address when MODE() is
\* 'development' and the page origin otherwise, no step changes it, and
\* every request issued targets it with path /ui-settings.
BaseUrlFixed ==
  /\ [](/\ mode = "development" => baseUrl = "http://127.0.0.1:4200"
        /\ mode # "development" => baseUrl = Origin
        /\ \A r \in 1..Len(requests) :
             requests[r].baseURL = baseUrl /\ requests[r].path = "/ui-settings")
  /\ [][baseUrl' = baseUrl /\ mode' = mode]_vars

BaseUrlFixedWitness ==
  /\ mode = "development"
  /\ Len(requests) = 1
  /\ requests[1].baseURL = "http://127.0.0.1:4200"
  /\ Succeeded(1) /\ Quiescent
  /\ \A c \in Calls : Finished(c)


\* The loader's phase, read off the two slots.
Phase ==
  IF settings # Null THEN "loaded"
  ELSE IF promise # 0 THEN "loading"
  ELSE "unloaded"

PhaseRank(ph) == CASE ph = "unloaded" -> 0 [] ph = "loading" -> 1 [] ph = "loaded" -> 2

\* C13: every step keeps the phase or moves it forward, one stage at a
\* time (unloaded -> loading -> loaded); the in-flight slot, once set, is
\* never cleared or replaced; settings are set only with the in-flight
\* slot set; and once loaded neither slot changes.
ForwardOnly ==
  /\ [](settings # Null => promise # 0)
  /\ [][/\ PhaseRank(Phase') >= PhaseRank(Phase)
        /\ PhaseRank(Phase') <= PhaseRank(Phase) + 1
        /\ promise # 0 => promise' = promise
        /\ Phase = "loaded" => settings' = settings /\ promise' = promise]_vars

ForwardOnlyWitness ==
  /\ Phase = "loaded"
  /\ \A c \in Calls : Finished(c)
  /\ \E c \in Calls : calls[c].kind = "load" /\ calls[c].path = "cached"
  /\ \E c \in Calls : calls[c].kind = "get" /\ calls[c].path = "shared"

\* C14: when the looked-up value is undefined after a successful load, a
\* finished get() called with the empty string as default was rejected
\* with the missing-setting message for its key; it never returned ''.
FalsyDefaultIsNoDefault ==
  \A c \in Calls :
    /\ calls[c].kind = "get" /\ calls[c].def = Str("")
    /\ Len(requests) >= 1 /\ Succeeded(1)
    /\ calls[c].key = "missingKey" \/ requests[1].outcome.val.data.api_url = Undef
    => /\ Quiescent => Finished(c)
       /\ Finished(c) =>
             /\ calls[c].pc = "rejected"
             /\ calls[c].result.t = "string"
             /\ calls[c].result.parts =
                  <<"UI setting \"", calls[c].key, "\" does not exist and no default was provided.">>

FalsyDefaultIsNoDefaultWitness ==
  /\ Len(requests) = 1 /\ Succeeded(1)
  /\ requests[1].outcome.val.data.api_url = Undef
  /\ \E c \in Calls : /\ calls[c].kind = "get" /\ calls[c].key = "apiUrl"
                        /\ calls[c].def = Str("") /\ calls[c].pc = "rejected"
  /\ \E c \in Calls : /\ calls[c].kind = "get" /\ calls[c].key = "missingKey"
                        /\ calls[c].def = Str("") /\ calls[c].pc = "rejected"


\* A call is made in this step.
CallMade(c) == calls[c].pc = "idle" /\ calls'[c].pc # "idle"

\* C15: at most one request exists in any state; once a request has been
\* issued no step issues another, whether it is in flight, succeeded or
\* failed; and a load() or get() call made after the request failed only
\* joins the stored promise.
NeverRetried ==
  /\ [](Len(requests) <= 1)
  /\ [][/\ Len(requests) >= 1 => Len(requests') = Len(requests)
        /\ \A c \in Calls :
             CallMade(c) /\ FailedBefore =>
               /\ requests' = requests
               /\ promise' = promise
               /\ calls'[c].pc = "thenableJob"]_vars

NeverRetriedWitness ==
  /\ Len(requests) = 1 /\ Failed(1)
  /\ Quiescent
  /\ \E c \in Calls : calls[c].kind = "load" /\ calls[c].afterFailure
  /\ \E c \in Calls : calls[c].kind = "get" /\ calls[c].afterFailure
  /\ \A c \in Calls : Started(c) /\ ~Finished(c)

\* C16: with reactions run in FIFO order, the continuation of the call
\* that started the request (which writes the settings slot) is ahead of
\* every other caller's reaction to the same fulfilment, so a queued get()
\* continuation of a fulfilled load() always finds the slot non-null, as
\* does every caller whose load() has resolved.
WriterRunsFirst ==
  /\ \A i \in 1..Len(queue) :
       /\ queue[i].type = "getCont" /\ queue[i].ok => settings # Null
       /\ queue[i].type = "adopt" /\ queue[i].ok /\ settings = Null =>
             \E j \in 1..(i - 1) : queue[j].type = "loadCont" /\ queue[j].p = queue[i].p
  /\ \A c \in Calls : LoadResolved(c) => settings # Null
  /\ \A c \in Calls :
       calls[c].kind = "get" /\ calls[c].pc = "fulfilled" =>
         calls[c].result # Null /\ settings # Null

WriterRunsFirstWitness ==
  /\ \A c \in Calls : calls[c].kind = "get"
  /\ calls[1].path = "fetch"
  /\ \A c \in Calls \ {1} : calls[c].path = "shared"
  /\ queue # <<>>
  /\ Head(queue).type = "getCont" /\ Head(queue).c # 1
  /\ settings # Null

=============================================================================
